---- MODULE Spec2Model ----
(***************************************************************************)
(* Model of src/server.js (first service variant, lines 1-161): the        *)
(* EasyMap proxy with its four endpoints, the optional MongoDB handle and  *)
(* the pure helpers isCoordinates / parseCoordinates / geocodePlace.       *)
(*                                                                         *)
(* JavaScript strings that the code inspects are sequences of one-         *)
(* character strings; error messages are sequences whose literal pieces    *)
(* are kept as one element each and whose interpolated pieces are the      *)
(* characters of the interpolated string.                                  *)
(***************************************************************************)
EXTENDS Integers, Sequences, FiniteSets, TLC

\* ------------------------------------------------------------------------
\* Bounds
\* ------------------------------------------------------------------------

\* Largest number of documents the external collection holds in a run.
MaxDocs == 2

\* ------------------------------------------------------------------------
\* JavaScript string and number primitives used by the helpers
\* ------------------------------------------------------------------------

Digit == {"0", "1", "2", "3", "4", "5", "6", "7", "8", "9"}

WhiteSpace == {" "}

RECURSIVE trimStart(_)
trimStart(s) ==
  IF s # <<>> /\ Head(s) \in WhiteSpace THEN trimStart(Tail(s)) ELSE s

RECURSIVE trimEnd(_)
trimEnd(s) ==
  IF s # <<>> /\ s[Len(s)] \in WhiteSpace
    THEN trimEnd(SubSeq(s, 1, Len(s) - 1))
    ELSE s

\* String.prototype.trim
trim(s) == trimEnd(trimStart(s))

\* String.prototype.split(','): the pieces between the commas.
RECURSIVE split(_)
split(s) ==
  IF \A i \in 1..Len(s) : s[i] # ","
    THEN <<s>>
    ELSE LET k == CHOOSE i \in 1..Len(s) :
                    s[i] = "," /\ \A j \in 1..(i - 1) : s[j] # ","
         IN  <<SubSeq(s, 1, k - 1)>> \o split(SubSeq(s, k + 1, Len(s)))

\* The longest prefix of s made of decimal digits.
RECURSIVE TakeDigits(_)
TakeDigits(s) ==
  IF s # <<>> /\ Head(s) \in Digit THEN <<Head(s)>> \o TakeDigits(Tail(s)) ELSE <<>>

RECURSIVE StripLeadingZeros(_)
StripLeadingZeros(d) ==
  IF Len(d) > 1 /\ Head(d) = "0" THEN StripLeadingZeros(Tail(d)) ELSE d

RECURSIVE StripTrailingZeros(_)
StripTrailingZeros(d) ==
  IF d # <<>> /\ d[Len(d)] = "0"
    THEN StripTrailingZeros(SubSeq(d, 1, Len(d) - 1))
    ELSE d

\* A JavaScript number as its decimal expansion: sign, integer digits without
\* leading zeros, fraction digits without trailing zeros.  Exact for literals
\* of at most 15 significant digits, which covers every input of the model.
NaN == [nan |-> TRUE, neg |-> FALSE, ip |-> <<>>, fp |-> <<>>]

\* parseFloat: skip leading white space, then read the longest prefix that is
\* a decimal literal (sign, digits, optional point and digits); NaN when that
\* prefix holds no digit.
parseFloat(s) ==
  LET t      == trimStart(s)
      signed == t # <<>> /\ Head(t) \in {"-", "+"}
      u      == IF signed THEN Tail(t) ELSE t
      ipRaw  == TakeDigits(u)
      rest   == SubSeq(u, Len(ipRaw) + 1, Len(u))
      fpRaw  == IF rest # <<>> /\ Head(rest) = "." THEN TakeDigits(Tail(rest)) ELSE <<>>
  IN  IF ipRaw = <<>> /\ fpRaw = <<>>
        THEN NaN
        ELSE [nan |-> FALSE,
              neg |-> signed /\ Head(t) = "-",
              ip  |-> IF ipRaw = <<>> THEN <<"0">> ELSE StripLeadingZeros(ipRaw),
              fp  |-> StripTrailingZeros(fpRaw)]

\* Number.isFinite (a decimal literal of the model's lengths never overflows
\* to Infinity, so the only non-finite value is NaN).
NumberIsFinite(n) == ~n.nan

IsZero(n) == ~n.nan /\ n.ip = <<"0">> /\ n.fp = <<>>

\* Number-to-string conversion of a template literal `${n}`: no sign on zero,
\* no trailing ".0", "NaN" for NaN.
NumberToString(n) ==
  IF n.nan THEN <<"NaN">>
  ELSE (IF n.neg /\ ~IsZero(n) THEN <<"-">> ELSE <<>>)
       \o n.ip
       \o (IF n.fp = <<>> THEN <<>> ELSE <<".">> \o n.fp)

\* ------------------------------------------------------------------------
\* Helpers of the service
\* ------------------------------------------------------------------------

\* One side of coordPattern: -?\d+\.?\d*
MatchesNumberPattern(t) ==
  LET u == IF t # <<>> /\ Head(t) = "-" THEN Tail(t) ELSE t
      d == TakeDigits(u)
      r == SubSeq(u, Len(d) + 1, Len(u))
      f == IF r # <<>> /\ Head(r) = "." THEN Tail(r) ELSE r
  IN  d # <<>> /\ TakeDigits(f) = f

\* isCoordinates: /^-?\d+\.?\d*,-?\d+\.?\d*$/ tested on the trimmed input.
isCoordinates(input) ==
  LET parts == split(trim(input))
  IN  Len(parts) = 2 /\ MatchesNumberPattern(parts[1]) /\ MatchesNumberPattern(parts[2])

\* parseCoordinates: [ok |-> FALSE] stands for the thrown
\* Error('Invalid coordinate format').
parseCoordinates(coordStr) ==
  LET raw   == split(coordStr)
      parts == [i \in 1..Len(raw) |-> parseFloat(trim(raw[i]))]
  IN  IF Len(parts) # 2 \/ ~(\A i \in 1..Len(parts) : NumberIsFinite(parts[i]))
        THEN [ok |-> FALSE, lat |-> NaN, lon |-> NaN]
        ELSE [ok |-> TRUE, lat |-> parts[1], lon |-> parts[2]]


\* err.message || fallback
OrDefault(message, fallback) == IF message = <<>> THEN fallback ELSE message

\* A bug that reports every failure with one fixed message.
geocodePlace_GenericMessage(placeName, reply) ==
  IF reply.kind = "json" /\ Len(reply.results) # 0
    THEN [ok           |-> TRUE,
          lat          |-> parseFloat(reply.results[1].lat),
          lon          |-> parseFloat(reply.results[1].lon),
          display_name |-> reply.results[1].display_name,
          message      |-> <<>>]
    ELSE [ok           |-> FALSE,
          lat          |-> NaN,
          lon          |-> NaN,
          display_name |-> "",
          message      |-> <<"Geocoding failed">>]

\* geocodePlace(placeName), given what the geocoding backend answers.
\* [ok |-> FALSE] stands for the Error thrown from the catch at line 54.
geocodePlace(placeName, reply) ==
  LET inner ==
        CASE reply.kind = "reject"  -> <<"request to nominatim.openstreetmap.org failed">>
          [] reply.kind = "status"  -> <<"Geocoding service error">>
          [] reply.kind = "badjson" -> <<"invalid json response body">>
          [] OTHER                  -> <<"No location found for \"">> \o placeName \o <<"\"">>
      found == reply.kind = "json" /\ Len(reply.results) # 0
  IN  IF found
        THEN [ok           |-> TRUE,
              lat          |-> parseFloat(reply.results[1].lat),
              lon          |-> parseFloat(reply.results[1].lon),
              display_name |-> reply.results[1].display_name,
              message      |-> <<>>]
        ELSE [ok           |-> FALSE,
              lat          |-> NaN,
              lon          |-> NaN,
              display_name |-> "",
              message      |-> <<"Geocoding failed for \"">> \o placeName \o <<"\": ">> \o inner]

\* A bug that keeps the input's order.
LonLat_NoSwap(coords) == NumberToString(coords.lat) \o <<",">> \o NumberToString(coords.lon)

\* `${coords.lon},${coords.lat}`
LonLat(coords) == NumberToString(coords.lon) \o <<",">> \o NumberToString(coords.lat)

OSRM_BASE == "https://router.project-osrm.org/route/v1/driving"

\* The URL of the routing request.
RouteUrl(sc, ec) ==
  <<OSRM_BASE, "/">> \o sc \o <<";">> \o ec
    \o <<"?overview=full&geometries=geojson&alternatives=false&steps=false">>

\* ------------------------------------------------------------------------
\* Inputs: what clients send and what the backends answer
\* ------------------------------------------------------------------------

\* Values of the start, end and q query parameters.
LocationInputs ==
  { <<"4", "0", ".", "0", ",", "-", "7", "3", ".", "0">>,
    <<"4", "1", ".", "0", ",", "-", "7", "4", ".", "0">>,
    <<" ", "-", "0", ",", "0", "5", ".", " ">>,
    <<"P", "a", "r", "i", "s">>,
    <<"1", "2", ".", "3", "4", ",">>,
    <<"1", ",", "2", ",", "3">>,
    <<>> }

\* The objects with some of the keys, each key holding one of the values.
Objects(keys, values) == UNION { [D -> values] : D \in SUBSET keys }

\* !obj.key : the key is absent or holds the empty string.
Falsy(obj, key) == key \notin DOMAIN obj \/ obj[key] = <<>>

GeoResults ==
  { [lat |-> <<"4", "8", ".", "8", "5", "0">>,
     lon |-> <<"2", ".", "3", "5">>,
     display_name |-> "Paris, France"] }

GeoReplies ==
  { [kind |-> k, results |-> <<>>] : k \in {"reject", "status", "json"} }
    \cup { [kind |-> "json", results |-> <<r>>] : r \in GeoResults }

Routes ==
  { [distance |-> "1200.5", duration |-> "300.2", geometry |-> "LineString"] }

\* What the routing backend answers; hasRoutes tells whether the JSON body has
\* a routes member at all.
OsrmReplies ==
  { [kind |-> k, hasRoutes |-> FALSE, routes |-> <<>>] : k \in {"reject", "status", "badjson", "json"} }
    \cup { [kind |-> "json", hasRoutes |-> TRUE, routes |-> <<>>] }
    \cup { [kind |-> "json", hasRoutes |-> TRUE, routes |-> <<r>>] : r \in Routes }

Names == { <<>>, <<"H", "o", "m", "e">> }

Geos == { <<"LineString">> }

\* Bodies of POST /save-route: name and geo are each present or absent.
SaveBodies ==
  { b \in Objects({"name", "geo"}, Names \cup Geos) :
      /\ "name" \in DOMAIN b => b["name"] \in Names
      /\ "geo" \in DOMAIN b => b["geo"] \in Geos }

\* ------------------------------------------------------------------------
\* State
\* ------------------------------------------------------------------------

VARIABLES
  mongoUri,         \* process.env.MONGODB_URI is set
  connPc,           \* the start-up connect: "none", "connecting", "connected", "failed"
  routesCollection, \* the module-level handle: "null" or "routes"
  store,            \* the documents of the external routes collection
  endpoint,         \* the endpoint of the request being served
  query,            \* req.query
  body,             \* req.body
  pc,               \* where the handler of the request is
  startCoords,      \* local of the /route handler
  endCoords,        \* local of the /route handler
  calls,            \* the outbound calls the handler has issued, in order
  replies,          \* what came back for them, in the same order
  responses,        \* the responses the handler has sent
  saveSeen          \* a POST /save-route has been handled since process start

vars ==
  <<mongoUri, connPc, routesCollection, store, endpoint, query, body, pc,
    startCoords, endCoords, calls, replies, responses, saveSeen>>

dbVars == <<mongoUri, connPc, routesCollection, store>>

Terminal == {"done", "rejected"}

\* A bug that opens the connection whether or not MONGODB_URI is set.
StartupConnPc_Always(uri) == "connecting"

\* if (process.env.MONGODB_URI) { ... await client.connect() ... }
StartupConnPc(uri) == IF uri THEN "connecting" ELSE "none"

Init ==
  /\ mongoUri \in BOOLEAN
  /\ connPc = StartupConnPc(mongoUri)
  /\ routesCollection = "null"
  /\ store = <<>>
  /\ endpoint = "none"
  /\ query = <<>>
  /\ body = <<>>
  /\ pc = "idle"
  /\ startCoords = <<>>
  /\ endCoords = <<>>
  /\ calls = <<>>
  /\ replies = <<>>
  /\ responses = <<>>
  /\ saveSeen = FALSE

\* res.status(status).json({error: message})
ErrorResponse(status, message) == [status |-> status, body |-> [error |-> message]]

\* A request can be taken when no handler is in progress.  Handlers keep
\* their data in locals and share only routesCollection, which no handler
\* writes, so requests are followed one at a time; the start-up connection
\* runs concurrently with them.
CanReceive == pc \in {"idle"} \cup Terminal

\* ------------------------------------------------------------------------
\* Start-up connection to MongoDB (lines 15-28)
\* ------------------------------------------------------------------------

ConnectOk ==
  /\ connPc = "connecting"
  /\ connPc' = "connected"
  /\ routesCollection' = "routes"
  /\ UNCHANGED <<mongoUri, store, endpoint, query, body, pc, startCoords, endCoords,
                 calls, replies, responses, saveSeen>>

ConnectFail ==
  /\ connPc = "connecting"
  /\ connPc' = "failed"
  /\ UNCHANGED <<mongoUri, routesCollection, store, endpoint, query, body, pc,
                 startCoords, endCoords, calls, replies, responses, saveSeen>>

\* ------------------------------------------------------------------------
\* GET /
\* ------------------------------------------------------------------------

Health ==
  /\ CanReceive
  /\ endpoint' = "/"
  /\ query' = <<>>
  /\ body' = <<>>
  /\ startCoords' = <<>>
  /\ endCoords' = <<>>
  /\ calls' = <<>>
  /\ responses' = <<[status |-> 200, body |-> [ok |-> TRUE]]>>
  /\ pc' = "done"
  /\ replies' = <<>>
  /\ UNCHANGED saveSeen
  /\ UNCHANGED dbVars

\* ------------------------------------------------------------------------
\* GET /geocode
\* ------------------------------------------------------------------------

Geocode ==
  /\ CanReceive
  /\ \E q \in Objects({"q"}, LocationInputs) :
       /\ query' = q
       /\ IF Falsy(q, "q")
            THEN /\ calls' = <<>>
                 /\ responses' = <<ErrorResponse(400, <<"Query parameter \"q\" is required">>)>>
                 /\ pc' = "done"
            ELSE /\ calls' = <<[svc |-> "geocode", arg |-> q["q"]]>>
                 /\ responses' = <<>>
                 /\ pc' = "await_geocode"
  /\ endpoint' = "/geocode"
  /\ body' = <<>>
  /\ startCoords' = <<>>
  /\ endCoords' = <<>>
  /\ replies' = <<>>
  /\ UNCHANGED saveSeen
  /\ UNCHANGED dbVars

GeocodeReply ==
  /\ pc = "await_geocode"
  /\ \E reply \in GeoReplies :
       /\ replies' = Append(replies, reply)
       /\ LET result == geocodePlace(query["q"], reply)
          IN  responses' =
                IF result.ok
                  THEN <<[status |-> 200,
                          body |-> [lat |-> result.lat, lon |-> result.lon,
                                    display_name |-> result.display_name]]>>
                  ELSE <<ErrorResponse(400, result.message)>>
  /\ pc' = "done"
  /\ UNCHANGED <<endpoint, query, body, startCoords, endCoords, calls>>
  /\ UNCHANGED saveSeen
  /\ UNCHANGED dbVars

\* ------------------------------------------------------------------------
\* GET /route
\* ------------------------------------------------------------------------

\* Lines 107-118, run once startCoords is known: the end location is parsed
\* or its geocoding is issued; with both known the routing request is issued.
\* cs is the calls issued so far.
ProcessEnd(end, sc, cs) ==
  IF isCoordinates(end)
    THEN LET coords == parseCoordinates(end)
         IN  IF ~coords.ok
               THEN [pc |-> "done", endCoords |-> <<>>, calls |-> cs,
                     responses |-> <<ErrorResponse(500, <<"Invalid coordinate format">>)>>]
               ELSE [pc |-> "await_osrm", endCoords |-> LonLat(coords),
                     calls |-> Append(cs, [svc |-> "osrm", arg |-> RouteUrl(sc, LonLat(coords))]),
                     responses |-> <<>>]
    ELSE [pc |-> "await_geo_end", endCoords |-> <<>>,
          calls |-> Append(cs, [svc |-> "geocode", arg |-> end]),
          responses |-> <<>>]

\* A bug that issues both geocoding calls at once when the start is a place.
ProcessStart_Concurrent(start, end) ==
  IF isCoordinates(start)
    THEN [startCoords |-> LonLat(parseCoordinates(start))]
           @@ ProcessEnd(end, LonLat(parseCoordinates(start)), <<>>)
    ELSE [pc |-> "await_geo_start", startCoords |-> <<>>, endCoords |-> <<>>,
          calls |-> <<[svc |-> "geocode", arg |-> start], [svc |-> "geocode", arg |-> end]>>,
          responses |-> <<>>]

\* Lines 98-105 followed by ProcessEnd when the start needs no geocoding.
ProcessStart(start, end) ==
  IF isCoordinates(start)
    THEN LET coords == parseCoordinates(start)
         IN  IF ~coords.ok
               THEN [pc |-> "done", startCoords |-> <<>>, endCoords |-> <<>>, calls |-> <<>>,
                     responses |-> <<ErrorResponse(500, <<"Invalid coordinate format">>)>>]
               ELSE [startCoords |-> LonLat(coords)] @@ ProcessEnd(end, LonLat(coords), <<>>)
    ELSE [pc |-> "await_geo_start", startCoords |-> <<>>, endCoords |-> <<>>,
          calls |-> <<[svc |-> "geocode", arg |-> start]>>,
          responses |-> <<>>]

\* A bug that tests for undefined instead of falsy: an empty string passes.
RouteParamsMissing_UndefinedOnly(q) == "start" \notin DOMAIN q \/ "end" \notin DOMAIN q

\* !start || !end
RouteParamsMissing(q) == Falsy(q, "start") \/ Falsy(q, "end")

Route ==
  /\ CanReceive
  /\ \E q \in Objects({"start", "end"}, LocationInputs) :
       /\ query' = q
       /\ IF RouteParamsMissing(q)
            THEN /\ startCoords' = <<>>
                 /\ endCoords' = <<>>
                 /\ calls' = <<>>
                 /\ responses' = <<ErrorResponse(400, <<"start and end required">>)>>
                 /\ pc' = "done"
            ELSE LET next == ProcessStart(q["start"], q["end"])
                 IN  /\ startCoords' = next.startCoords
                     /\ endCoords' = next.endCoords
                     /\ calls' = next.calls
                     /\ responses' = next.responses
                     /\ pc' = next.pc
  /\ endpoint' = "/route"
  /\ body' = <<>>
  /\ replies' = <<>>
  /\ UNCHANGED saveSeen
  /\ UNCHANGED dbVars

\* geocodePlace(start) settles (line 103).
RouteStartGeocoded ==
  /\ pc = "await_geo_start"
  /\ \E reply \in GeoReplies :
       /\ replies' = Append(replies, reply)
       /\ LET geocoded == geocodePlace(query["start"], reply)
          IN  IF ~geocoded.ok
                THEN /\ responses' = <<ErrorResponse(500, OrDefault(geocoded.message, <<"Server error">>))>>
                     /\ pc' = "done"
                     /\ UNCHANGED <<startCoords, endCoords, calls>>
                ELSE LET next == ProcessEnd(query["end"], LonLat(geocoded), calls)
                     IN  /\ startCoords' = LonLat(geocoded)
                         /\ endCoords' = next.endCoords
                         /\ calls' = next.calls
                         /\ responses' = next.responses
                         /\ pc' = next.pc
  /\ UNCHANGED <<endpoint, query, body>>
  /\ UNCHANGED saveSeen
  /\ UNCHANGED dbVars

\* geocodePlace(end) settles (line 112); on success the routing request is
\* issued (lines 117-118).
RouteEndGeocoded ==
  /\ pc = "await_geo_end"
  /\ \E reply \in GeoReplies :
       /\ replies' = Append(replies, reply)
       /\ LET geocoded == geocodePlace(query["end"], reply)
          IN  IF ~geocoded.ok
                THEN /\ responses' = <<ErrorResponse(500, OrDefault(geocoded.message, <<"Server error">>))>>
                     /\ pc' = "done"
                     /\ UNCHANGED <<endCoords, calls>>
                ELSE /\ endCoords' = LonLat(geocoded)
                     /\ calls' = Append(calls, [svc |-> "osrm",
                                                arg |-> RouteUrl(startCoords, LonLat(geocoded))])
                     /\ responses' = <<>>
                     /\ pc' = "await_osrm"
  /\ UNCHANGED <<endpoint, query, body, startCoords>>
  /\ UNCHANGED saveSeen
  /\ UNCHANGED dbVars

\* A bug that shapes the answer with route?.distance and no emptiness check:
\* without a route the members read from it are dropped from the JSON.
RouteResponse_Unchecked(reply, sc, ec) ==
  CASE reply.kind \in {"reject", "badjson"} ->
         ErrorResponse(500, <<"Server error">>)
    [] reply.kind = "status" ->
         ErrorResponse(502, <<"Routing service error">>)
    [] OTHER ->
         IF ~reply.hasRoutes \/ Len(reply.routes) = 0
           THEN [status |-> 200, body |-> [start_coords |-> sc, end_coords |-> ec]]
           ELSE [status |-> 200,
                 body |-> [distance_meters  |-> reply.routes[1].distance,
                           duration_seconds |-> reply.routes[1].duration,
                           geometry         |-> reply.routes[1].geometry,
                           start_coords     |-> sc,
                           end_coords       |-> ec]]

\* The response the handler sends once the routing request has settled
\* (lines 118-135).
RouteResponse(reply, sc, ec) ==
  CASE reply.kind = "reject" ->
         ErrorResponse(500, OrDefault(<<"request to router.project-osrm.org failed">>,
                                      <<"Server error">>))
    [] reply.kind = "status" ->
         ErrorResponse(502, <<"Routing service error">>)
    [] reply.kind = "badjson" ->
         ErrorResponse(500, OrDefault(<<"invalid json response body">>, <<"Server error">>))
    [] OTHER ->
         IF ~reply.hasRoutes \/ Len(reply.routes) = 0
           THEN ErrorResponse(404, <<"No route found">>)
           ELSE [status |-> 200,
                 body |-> [distance_meters  |-> reply.routes[1].distance,
                           duration_seconds |-> reply.routes[1].duration,
                           geometry         |-> reply.routes[1].geometry,
                           start_coords     |-> sc,
                           end_coords       |-> ec]]

RouteFetched ==
  /\ pc = "await_osrm"
  /\ \E reply \in OsrmReplies :
       /\ replies' = Append(replies, reply)
       /\ responses' = <<RouteResponse(reply, startCoords, endCoords)>>
  /\ pc' = "done"
  /\ UNCHANGED <<endpoint, query, body, startCoords, endCoords, calls>>
  /\ UNCHANGED saveSeen
  /\ UNCHANGED dbVars

\* ------------------------------------------------------------------------
\* POST /save-route
\* ------------------------------------------------------------------------

\* { name: name || 'Unnamed', geo, createdAt: new Date() }; the clock ticks
\* once per stored document.
NewDoc(b, now) ==
  [name      |-> IF Falsy(b, "name") THEN <<"Unnamed">> ELSE b["name"],
   geo       |-> b["geo"],
   createdAt |-> now]

SaveRoute ==
  /\ CanReceive
  /\ Len(store) < MaxDocs
  /\ \E b \in SaveBodies :
       /\ body' = b
       /\ IF routesCollection = "null"
            THEN /\ calls' = <<>>
                 /\ responses' = <<ErrorResponse(400, <<"MongoDB not configured">>)>>
                 /\ pc' = "done"
            ELSE IF Falsy(b, "geo")
              THEN /\ calls' = <<>>
                   /\ responses' = <<ErrorResponse(400, <<"geo required">>)>>
                   /\ pc' = "done"
              ELSE /\ calls' = <<[svc |-> "insertOne", arg |-> NewDoc(b, Len(store) + 1)]>>
                   /\ responses' = <<>>
                   /\ pc' = "await_insert"
  /\ endpoint' = "/save-route"
  /\ query' = <<>>
  /\ startCoords' = <<>>
  /\ endCoords' = <<>>
  /\ replies' = <<>>
  /\ saveSeen' = TRUE
  /\ UNCHANGED dbVars

\* insertOne settles: the document is stored and acknowledged, or the write
\* fails and nothing is stored.
SaveRouteInserted ==
  /\ pc = "await_insert"
  /\ \E ok \in BOOLEAN :
       /\ replies' = Append(replies, [kind |-> IF ok THEN "ok" ELSE "fail"])
       /\ IF ok
            THEN /\ store' = Append(store, calls[1].arg)
                 /\ responses' = <<[status |-> 200,
                                    body |-> [ok |-> TRUE, id |-> Len(store) + 1,
                                              message |-> <<"Saved">>]]>>
            ELSE /\ store' = store
                 /\ responses' = <<ErrorResponse(500, <<"Save failed">>)>>
  /\ pc' = "done"
  /\ UNCHANGED <<endpoint, query, body, startCoords, endCoords, calls>>
  /\ UNCHANGED saveSeen
  /\ UNCHANGED <<mongoUri, connPc, routesCollection>>

\* ------------------------------------------------------------------------
\* GET /routes
\* ------------------------------------------------------------------------

LIST_LIMIT == 50

\* sort({createdAt: -1}): the most recent document first.
RECURSIVE SortByCreatedAtDesc(_)
SortByCreatedAtDesc(docs) ==
  IF docs = <<>> THEN <<>>
  ELSE LET k == CHOOSE i \in 1..Len(docs) :
                  \A j \in 1..Len(docs) : docs[j].createdAt <= docs[i].createdAt
       IN  <<docs[k]>> \o SortByCreatedAtDesc(SubSeq(docs, 1, k - 1) \o SubSeq(docs, k + 1, Len(docs)))

\* find({}).sort({createdAt: -1}).limit(50).toArray()
FindRoutes(docs) ==
  LET sorted == SortByCreatedAtDesc(docs)
  IN  SubSeq(sorted, 1, IF Len(sorted) < LIST_LIMIT THEN Len(sorted) ELSE LIST_LIMIT)

ListRoutes ==
  /\ CanReceive
  /\ IF routesCollection = "null"
       THEN /\ calls' = <<>>
            /\ responses' = <<[status |-> 200, body |-> <<>>]>>
            /\ pc' = "done"
       ELSE /\ calls' = <<[svc |-> "find", arg |-> <<>>]>>
            /\ responses' = <<>>
            /\ pc' = "await_find"
  /\ endpoint' = "/routes"
  /\ query' = <<>>
  /\ body' = <<>>
  /\ startCoords' = <<>>
  /\ endCoords' = <<>>
  /\ replies' = <<>>
  /\ UNCHANGED saveSeen
  /\ UNCHANGED dbVars

\* toArray() settles.  The handler has no try/catch: when the read fails its
\* promise rejects.  Express 5 forwards the rejection to its error handler,
\* which answers 500; Express 4 ignores it and nothing is ever sent.  The
\* repository pins no version, so either may happen.
ListRoutesRead ==
  /\ pc = "await_find"
  /\ \E outcome \in {"ok", "fail_forwarded", "fail_ignored"} :
       /\ replies' = Append(replies, [kind |-> IF outcome = "ok" THEN "ok" ELSE "fail"])
       /\ CASE outcome = "ok" ->
                 /\ responses' = <<[status |-> 200, body |-> FindRoutes(store)]>>
                 /\ pc' = "done"
            [] outcome = "fail_forwarded" ->
                 /\ responses' = <<ErrorResponse(500, <<"Internal Server Error">>)>>
                 /\ pc' = "done"
            [] OTHER ->
                 /\ responses' = <<>>
                 /\ pc' = "rejected"
  /\ UNCHANGED <<endpoint, query, body, startCoords, endCoords, calls>>
  /\ UNCHANGED saveSeen
  /\ UNCHANGED dbVars

\* ------------------------------------------------------------------------
\* Specification
\* ------------------------------------------------------------------------

Next ==
  \/ ConnectOk
  \/ ConnectFail
  \/ Health
  \/ Geocode
  \/ GeocodeReply
  \/ Route
  \/ RouteStartGeocoded
  \/ RouteEndGeocoded
  \/ RouteFetched
  \/ SaveRoute
  \/ SaveRouteInserted
  \/ ListRoutes
  \/ ListRoutesRead

Spec == Init /\ [][Next]_vars

\* ------------------------------------------------------------------------
\* Properties
\* ------------------------------------------------------------------------

\* The parameter is absent from the object or is the empty string.
MissingOrEmpty(obj, key) == ~(key \in DOMAIN obj /\ Len(obj[key]) > 0)

\* The text occurs in the message.
Contains(message, text) ==
  \E i \in 1..(Len(message) - Len(text) + 1) : SubSeq(message, i, i + Len(text) - 1) = text

\* Two numbers are the same value (JavaScript ===: zero equals negative zero).
NumEq(a, b) ==
  /\ ~a.nan /\ ~b.nan
  /\ a.ip = b.ip /\ a.fp = b.fp
  /\ (a.neg = b.neg \/ (a.ip = <<"0">> /\ a.fp = <<>>))

\* The handler of the request has answered with this status.
Answered(status) == pc = "done" /\ Len(responses) = 1 /\ responses[1].status = status

\* The last outbound call of the request and what came back for it.
LastCallSettled(svc) ==
  /\ calls # <<>> /\ Len(replies) = Len(calls)
  /\ calls[Len(calls)].svc = svc

\* C3: a /route request whose start or end is missing or empty is answered
\* 400 {error: "start and end required"} and issues no outbound call.
C3_MissingParameterRejected ==
  (endpoint = "/route" /\ (MissingOrEmpty(query, "start") \/ MissingOrEmpty(query, "end")))
    => /\ pc = "done"
       /\ responses = <<[status |-> 400, body |-> [error |-> <<"start and end required">>]]>>
       /\ calls = <<>>

C3_Witness ==
  /\ endpoint = "/route" /\ pc = "done"
  /\ ~MissingOrEmpty(query, "start") /\ "end" \notin DOMAIN query
  /\ Answered(400) /\ calls = <<>>

\* C1: in /route, a routing backend that is unavailable (the fetch rejects,
\* or it answers with a non-success status) is answered 502, and a successful
\* answer with an empty route list is answered 404.
C1_RoutingUnavailableIs502 ==
  (endpoint = "/route" /\ pc = "done" /\ LastCallSettled("osrm"))
    => LET reply == replies[Len(replies)]
       IN  /\ reply.kind \in {"reject", "status"} => Answered(502)
           /\ (reply.kind = "json" /\ reply.hasRoutes /\ Len(reply.routes) = 0) => Answered(404)

\* C2: geocodePlace is never invoked, by any endpoint, with a string that
\* isCoordinates recognizes as a coordinate pair.
C2_GeocoderNeverGivenCoordinates ==
  \A i \in 1..Len(calls) : calls[i].svc = "geocode" => ~isCoordinates(calls[i].arg)

\* The insert of the /save-route request failed.
WriteFailed == replies # <<>> /\ replies[1].kind = "fail"

\* C4: POST /save-route is answered 400 without an insert when persistence
\* is unconfigured or geo is missing, 500 when the insert fails, and otherwise
\* (a store is configured, geo is present, the write succeeds) 200
\* {ok: true, id, message} after exactly one insert of a record whose name
\* defaults to "Unnamed".
C4_SaveRouteContract ==
  (endpoint = "/save-route" /\ pc = "done")
    => /\ (~mongoUri \/ MissingOrEmpty(body, "geo")) => (Answered(400) /\ calls = <<>>)
       /\ WriteFailed => Answered(500)
       /\ (mongoUri /\ ~MissingOrEmpty(body, "geo") /\ ~WriteFailed)
            => /\ Answered(200)
               /\ DOMAIN responses[1].body = {"ok", "id", "message"}
               /\ responses[1].body.ok
               /\ Len(calls) = 1 /\ calls[1].svc = "insertOne"
               /\ calls[1].arg.name =
                    (IF MissingOrEmpty(body, "name") THEN <<"Unnamed">> ELSE body["name"])

\* C5: with no persistence store configured, GET /routes is answered 200 with
\* the empty list, whatever requests were served before.
C5_RoutesEmptyWhenUnconfigured ==
  (~mongoUri /\ endpoint = "/routes")
    => /\ pc = "done"
       /\ responses = <<[status |-> 200, body |-> <<>>]>>
       /\ calls = <<>>

C5_Witness ==
  /\ ~mongoUri /\ endpoint = "/routes" /\ saveSeen
  /\ Answered(200) /\ responses[1].body = <<>>

\* out is "lon,lat" for the input "lat,lon": two numbers, the input's two
\* values in the opposite order.
SwappedOnce(input, out) ==
  LET given == split(trim(input))
      sent  == split(out)
  IN  /\ Len(sent) = 2 /\ Len(given) = 2
      /\ NumEq(parseFloat(sent[1]), parseFloat(given[2]))
      /\ NumEq(parseFloat(sent[2]), parseFloat(given[1]))

\* The routing request names these two coordinate strings, start first.
RoutingAsked(sc, ec) ==
  \E i \in 1..Len(calls) :
    /\ calls[i].svc = "osrm"
    /\ SubSeq(calls[i].arg, 3, Len(sc) + Len(ec) + 3) = sc \o <<";">> \o ec

\* C6: a /route location given as coordinates "lat,lon" reaches the routing
\* backend, and is echoed as start_coords / end_coords, as "lon,lat": the two
\* parsed values in swapped order (start=40.0,-73.0 gives "-73,40").
C6_CoordinatesSwappedOnce ==
  (endpoint = "/route" /\ ~MissingOrEmpty(query, "start") /\ ~MissingOrEmpty(query, "end"))
    => /\ isCoordinates(query["start"]) => SwappedOnce(query["start"], startCoords)
       /\ (isCoordinates(query["end"]) /\ startCoords # <<>>)
            => SwappedOnce(query["end"], endCoords)
       /\ query["start"] = <<"4", "0", ".", "0", ",", "-", "7", "3", ".", "0">>
            => startCoords = <<"-", "7", "3", ",", "4", "0">>
       /\ (query["end"] = <<"4", "1", ".", "0", ",", "-", "7", "4", ".", "0">> /\ startCoords # <<>>)
            => endCoords = <<"-", "7", "4", ",", "4", "1">>
       /\ (startCoords # <<>> /\ endCoords # <<>>) => RoutingAsked(startCoords, endCoords)
       /\ Answered(200)
            => /\ responses[1].body.start_coords = startCoords
               /\ responses[1].body.end_coords = endCoords

C6_Witness ==
  /\ endpoint = "/route" /\ Answered(200)
  /\ query["start"] = <<"4", "0", ".", "0", ",", "-", "7", "3", ".", "0">>
  /\ query["end"] = <<"4", "1", ".", "0", ",", "-", "7", "4", ".", "0">>
  /\ responses[1].body.start_coords = <<"-", "7", "3", ",", "4", "0">>
  /\ responses[1].body.end_coords = <<"-", "7", "4", ",", "4", "1">>

\* The coordinate string is a resolved location: two finite numbers.
Resolved(coords) ==
  LET parts == split(coords)
  IN  Len(parts) = 2 /\ ~parseFloat(parts[1]).nan /\ ~parseFloat(parts[2]).nan

\* C7: /route never answers with a partial result: a response is either a
\* 200 with distance_meters, duration_seconds, geometry, start_coords and
\* end_coords, sent after both locations were resolved and the routing backend
\* returned a non-empty route list, or a non-200 with only {error}.
C7_NoPartialResult ==
  (endpoint = "/route" /\ responses # <<>>)
    => /\ Len(responses) = 1
       /\ IF responses[1].status = 200
            THEN /\ DOMAIN responses[1].body =
                      {"distance_meters", "duration_seconds", "geometry",
                       "start_coords", "end_coords"}
                 /\ Resolved(startCoords) /\ Resolved(endCoords)
                 /\ responses[1].body.start_coords = startCoords
                 /\ responses[1].body.end_coords = endCoords
                 /\ LastCallSettled("osrm")
                 /\ replies[Len(replies)].kind = "json"
                 /\ Len(replies[Len(replies)].routes) > 0
                 /\ responses[1].body.distance_meters = replies[Len(replies)].routes[1].distance
                 /\ responses[1].body.duration_seconds = replies[Len(replies)].routes[1].duration
                 /\ responses[1].body.geometry = replies[Len(replies)].routes[1].geometry
            ELSE DOMAIN responses[1].body = {"error"}

C7_Witness ==
  /\ endpoint = "/route" /\ Answered(200)
  /\ Len(calls) = 3
  /\ Resolved(startCoords) /\ Resolved(endCoords)

\* The geocoding backend answered without a result.
NoResults(reply) == reply.kind = "json" /\ Len(reply.results) = 0

\* C8: GET /geocode is answered 400 {error} when q is missing (with no
\* outbound call) and when resolution fails; with zero results the message
\* contains the query text; it is answered 200 {lat, lon, display_name} only
\* when the backend returned at least one result.
C8_GeocodeContract ==
  (endpoint = "/geocode" /\ pc = "done")
    => /\ Len(responses) = 1
       /\ MissingOrEmpty(query, "q")
            => (Answered(400) /\ DOMAIN responses[1].body = {"error"} /\ calls = <<>>)
       /\ (replies # <<>> /\ (replies[1].kind \in {"reject", "status"} \/ NoResults(replies[1])))
            => (Answered(400) /\ DOMAIN responses[1].body = {"error"})
       /\ (replies # <<>> /\ NoResults(replies[1]))
            => Contains(responses[1].body.error, query["q"])
       /\ Answered(200)
            => /\ replies # <<>> /\ replies[1].kind = "json" /\ Len(replies[1].results) >= 1
               /\ DOMAIN responses[1].body = {"lat", "lon", "display_name"}

C8_Witness ==
  /\ endpoint = "/geocode" /\ Answered(400)
  /\ replies # <<>> /\ NoResults(replies[1])
  /\ Contains(responses[1].body.error, query["q"])

\* The outbound calls a /route request makes when nothing fails.
ExpectedCalls ==
  (IF isCoordinates(query["start"]) THEN <<>> ELSE <<[svc |-> "geocode", arg |-> query["start"]]>>)
    \o (IF isCoordinates(query["end"]) THEN <<>> ELSE <<[svc |-> "geocode", arg |-> query["end"]]>>)
    \o <<[svc |-> "osrm", arg |-> <<>>]>>

\* The outbound call came back with a failure.
Failed(reply) ==
  \/ reply.kind \in {"reject", "status", "badjson"}
  \/ reply.kind = "json" /\ "routes" \in DOMAIN reply /\ Len(reply.routes) = 0
  \/ reply.kind = "json" /\ "results" \in DOMAIN reply /\ Len(reply.results) = 0

\* C9: within one /route request the outbound calls are resolve-start,
\* resolve-end, call-routing, without retries: routing is called at most once
\* and only after both locations were resolved, each location is geocoded at
\* most once, and after a failed call no further call is made before the
\* error response.
C9_CallOrderNoRetry ==
  (endpoint = "/route" /\ ~MissingOrEmpty(query, "start") /\ ~MissingOrEmpty(query, "end"))
    => /\ Len(calls) <= Len(ExpectedCalls)
       /\ \A i \in 1..Len(calls) :
            /\ calls[i].svc = ExpectedCalls[i].svc
            /\ calls[i].svc = "geocode" => calls[i].arg = ExpectedCalls[i].arg
            /\ calls[i].svc = "osrm"
                 => /\ Resolved(startCoords) /\ Resolved(endCoords)
                    /\ \A j \in 1..(i - 1) : ~Failed(replies[j])
       /\ Len(calls) - 1 <= Len(replies) /\ Len(replies) <= Len(calls)
       /\ \A j \in 1..Len(replies) :
            Failed(replies[j])
              => /\ j = Len(calls)
                 /\ pc = "done"
                 /\ Len(responses) = 1 /\ responses[1].status # 200

C9_Witness ==
  /\ endpoint = "/route" /\ pc = "done"
  /\ Len(calls) = 2 /\ Len(replies) = 2
  /\ calls[1].svc = "geocode" /\ calls[2].svc = "geocode"
  /\ Failed(replies[2])
  /\ Answered(500)

\* C10: the handler of every request sends exactly one response once the
\* outbound calls it made have returned or failed.
C10_EveryRequestAnsweredOnce ==
  pc \in Terminal => Len(responses) = 1

====
